---- MODULE Spec2Model ----
(***************************************************************************)
(* Model of the ChessHasher class of chess-zobrist (index.ts): a Polyglot  *)
(* style Zobrist hasher of chess positions given as FEN strings.           *)
(*                                                                         *)
(* A JavaScript string is modelled as a sequence of one-character strings, *)
(* a Hash (number[]) as a sequence of bytes.  One ChessHasher instance is  *)
(* the state: its four private fields, plus the argument and the outcome   *)
(* of the last hashPosition call made on it.                               *)
(***************************************************************************)
EXTENDS Integers, Sequences, FiniteSets, TLC

VARIABLES error, enPasRank, enPasFile, pawnNearby, fen, outcome, result, lookups, pre

vars == <<error, enPasRank, enPasFile, pawnNearby, fen, outcome, result, lookups, pre>>

(***************************************************************************)
(* Characters                                                              *)
(***************************************************************************)

\* String.prototype.charCodeAt for the characters the inputs are made of.
CharCode ==
    " " :> 32 @@ "-" :> 45 @@ "/" :> 47 @@ "0" :> 48 @@ "1" :> 49 @@ "2" :> 50 @@
    "3" :> 51 @@ "4" :> 52 @@ "5" :> 53 @@ "6" :> 54 @@ "7" :> 55 @@ "8" :> 56 @@
    "9" :> 57 @@ "A" :> 65 @@ "B" :> 66 @@ "C" :> 67 @@ "D" :> 68 @@ "E" :> 69 @@
    "F" :> 70 @@ "G" :> 71 @@ "H" :> 72 @@ "I" :> 73 @@ "J" :> 74 @@ "K" :> 75 @@
    "L" :> 76 @@ "M" :> 77 @@ "N" :> 78 @@ "O" :> 79 @@ "P" :> 80 @@ "Q" :> 81 @@
    "R" :> 82 @@ "S" :> 83 @@ "T" :> 84 @@ "U" :> 85 @@ "V" :> 86 @@ "W" :> 87 @@
    "X" :> 88 @@ "Y" :> 89 @@ "Z" :> 90 @@ "a" :> 97 @@ "b" :> 98 @@ "c" :> 99 @@
    "d" :> 100 @@ "e" :> 101 @@ "f" :> 102 @@ "g" :> 103 @@ "h" :> 104 @@ "i" :> 105 @@
    "j" :> 106 @@ "k" :> 107 @@ "l" :> 108 @@ "m" :> 109 @@ "n" :> 110 @@ "o" :> 111 @@
    "p" :> 112 @@ "q" :> 113 @@ "r" :> 114 @@ "s" :> 115 @@ "t" :> 116 @@ "u" :> 117 @@
    "v" :> 118 @@ "w" :> 119 @@ "x" :> 120 @@ "y" :> 121 @@ "z" :> 122

\* The digits Number.prototype.toString(16) produces, by value.
LowerHexDigits == <<"0","1","2","3","4","5","6","7","8","9","a","b","c","d","e","f">>

\* The digits the constant table is written with, by value.
UpperHexDigits == <<"0","1","2","3","4","5","6","7","8","9","A","B","C","D","E","F">>

\* The value parseInt(_, 16) gives one hexadecimal digit, of either case.
HexDigitValue(c) ==
    LET code == CharCode[c] IN
    IF code >= 48 /\ code <= 57 THEN code - 48
    ELSE IF code >= 97 /\ code <= 102 THEN code - 87
    ELSE code - 55

\* The operator ^ of JavaScript on two bits.
BitXor(a, b) == IF a = b THEN 0 ELSE 1

RECURSIVE NibbleXor(_, _, _)
NibbleXor(a, b, bits) ==
    IF bits = 0 THEN 0
    ELSE BitXor(a % 2, b % 2) + 2 * NibbleXor(a \div 2, b \div 2, bits - 1)

\* a ^ b for every pair of half bytes, tabulated: entry [a + 1][b + 1].
RECURSIVE NibbleXorRow(_, _)
NibbleXorRow(a, n) ==
    IF n = 0 THEN <<>> ELSE Append(NibbleXorRow(a, n - 1), NibbleXor(a, n - 1, 4))

RECURSIVE NibbleXorRows(_)
NibbleXorRows(n) ==
    IF n = 0 THEN <<>> ELSE Append(NibbleXorRows(n - 1), NibbleXorRow(n - 1, 16))

NibbleXorTable == NibbleXorRows(16)

\* The operator ^ of JavaScript on two bytes.
ByteXor(a, b) ==
    16 * NibbleXorTable[(a \div 16) + 1][(b \div 16) + 1]
       + NibbleXorTable[(a % 16) + 1][(b % 16) + 1]

Min(a, b) == IF a < b THEN a ELSE b

(***************************************************************************)
(* The constant table (hashes.ts).  The file holding the 781 literals is   *)
(* not part of the sources at hand; the table is modelled as the design    *)
(* describes it: 781 entries, indices 0..780, each a string of 16          *)
(* hexadecimal digits, with entry 780 the value the empty-board vector     *)
(* fixes.  The other entries are stand-ins, pairwise distinct and non-zero.*)
(***************************************************************************)

TableSize == 781

TableMul == <<167, 29, 211, 113, 59, 241, 83, 197>>

TableAdd == <<13, 101, 57, 31, 7, 149, 223, 89>>

TableByte(i, j) ==
    LET n == i + 1 IN
    ((n * n * TableMul[j] + n * TableAdd[j] + (n \div 5) * (j + 2) * 17) % 65521) % 256

SideConstant == <<"F","8","D","6","2","6","A","A","A","F","2","7","8","5","0","9">>

HexOf(b) == <<UpperHexDigits[(b \div 16) + 1], UpperHexDigits[(b % 16) + 1]>>

TableEntry(i) ==
    IF i = TableSize - 1 THEN SideConstant
    ELSE HexOf(TableByte(i, 1)) \o HexOf(TableByte(i, 2)) \o HexOf(TableByte(i, 3)) \o
         HexOf(TableByte(i, 4)) \o HexOf(TableByte(i, 5)) \o HexOf(TableByte(i, 6)) \o
         HexOf(TableByte(i, 7)) \o HexOf(TableByte(i, 8))

\* The array polyglot_hashes: element i of the array is polyglot_hashes[i + 1].
RECURSIVE TableRange(_, _)
TableRange(lo, hi) ==
    IF lo > hi THEN <<>>
    ELSE IF lo = hi THEN <<TableEntry(lo)>>
    ELSE LET mid == (lo + hi) \div 2 IN TableRange(lo, mid) \o TableRange(mid + 1, hi)

polyglot_hashes == TableRange(0, TableSize - 1)

(***************************************************************************)
(* Static helpers of ChessHasher                                           *)
(***************************************************************************)

hashes == polyglot_hashes

\* parseHexString: two digits per byte, a trailing odd digit is dropped.
parseHexString(str) ==
    [k \in 1..(Len(str) \div 2) |->
        16 * HexDigitValue(str[2 * k - 1]) + HexDigitValue(str[2 * k])]

emptyHash ==
    parseHexString(<<"0","0","0","0","0","0","0","0","0","0","0","0","0","0","0","0">>)

\* Number.prototype.toString(16) of a non-negative integer.
RECURSIVE ToString16(_)
ToString16(n) ==
    IF n < 16 THEN <<LowerHexDigits[n + 1]>>
    ELSE ToString16(n \div 16) \o <<LowerHexDigits[(n % 16) + 1]>>

\* String.prototype.padStart(2, '0').
PadStart2(s) == IF Len(s) >= 2 THEN s ELSE IF Len(s) = 1 THEN <<"0">> \o s ELSE <<"0","0">>

RECURSIVE JoinAll(_)
JoinAll(ss) == IF ss = <<>> THEN <<>> ELSE Head(ss) \o JoinAll(Tail(ss))

createHexString(arr) ==
    JoinAll([k \in 1..Len(arr) |-> PadStart2(ToString16(arr[k]))])

xorArrays(a, b) ==
    [k \in 1..Min(Len(a), Len(b)) |-> ByteXor(a[k], b[k])]

(***************************************************************************)
(* Instance methods.  A record m carries the four fields of the instance,  *)
(* the running hash arr, the log of the table indices read so far and      *)
(* whether a TypeError has been thrown (reading .length of undefined, when *)
(* the index is outside the table).                                        *)
(***************************************************************************)

xorHash(m, num, who) ==
    IF m.thrown THEN m
    ELSE LET m1 == [m EXCEPT !.log = Append(@, [idx |-> num, by |-> who])] IN
         IF num >= 0 /\ num < Len(hashes)
         THEN [m1 EXCEPT !.arr = xorArrays(m.arr, parseHexString(hashes[num + 1]))]
         ELSE [m1 EXCEPT !.thrown = TRUE]

\* parseEnPassant accepting only the ranks a pawn can be captured on.
parseEnPassant_Rank3Or6(m, str) ==
    IF str = <<>> \/ str = <<"-">> THEN m
    ELSE IF Len(str) # 2 THEN [m EXCEPT !.error = TRUE]
    ELSE LET f == CharCode[str[1]] - 97
             r == CharCode[str[2]] - 49
         IN  IF (f < 0) \/ (f > 7) \/ (r # 2 /\ r # 5)
             THEN [m EXCEPT !.error = TRUE]
             ELSE [m EXCEPT !.enPasFile = f, !.enPasRank = r]

parseEnPassant(m, str) ==
    IF str = <<>> \/ str = <<"-">> THEN m
    ELSE IF Len(str) # 2 THEN [m EXCEPT !.error = TRUE]
    ELSE LET f == CharCode[str[1]] - 97
             r == CharCode[str[2]] - 49
         IN  IF (f < 0) \/ (f > 7) \/ (r < 0) \/ (r > 7)
             THEN [m EXCEPT !.error = TRUE]
             ELSE [m EXCEPT !.enPasFile = f, !.enPasRank = r]

\* hashSide with the test of the colour inverted.
hashSide_Black(m, str) ==
    IF str = <<"b">> THEN xorHash(m, 780, "hashSide") ELSE m

hashSide(m, str) ==
    IF str = <<"w">> THEN xorHash(m, 780, "hashSide") ELSE m

includes(str, c) == \E k \in 1..Len(str) : str[k] = c

\* hashCastling with the four tests chained by else.
hashCastling_ElseIf(m, str) ==
    IF str = <<"-">> THEN m
    ELSE IF includes(str, "K") THEN xorHash(m, 768, "hashCastling")
    ELSE IF includes(str, "Q") THEN xorHash(m, 769, "hashCastling")
    ELSE IF includes(str, "k") THEN xorHash(m, 770, "hashCastling")
    ELSE IF includes(str, "q") THEN xorHash(m, 771, "hashCastling")
    ELSE m

hashCastling(m, str) ==
    IF str = <<"-">> THEN m
    ELSE LET m1 == IF includes(str, "K") THEN xorHash(m, 768, "hashCastling") ELSE m
             m2 == IF includes(str, "Q") THEN xorHash(m1, 769, "hashCastling") ELSE m1
             m3 == IF includes(str, "k") THEN xorHash(m2, 770, "hashCastling") ELSE m2
             m4 == IF includes(str, "q") THEN xorHash(m3, 771, "hashCastling") ELSE m3
         IN  m4

\* The multiplier of 64 in each piece case of the switch of hashPieces.
pieceCase ==
    "p" :> 0 @@ "P" :> 1 @@ "n" :> 2 @@ "N" :> 3 @@ "b" :> 4 @@ "B" :> 5 @@
    "r" :> 6 @@ "R" :> 7 @@ "q" :> 8 @@ "Q" :> 9 @@ "k" :> 10 @@ "K" :> 11

digitCase == {"0", "1", "2", "3", "4", "5", "6", "7", "8"}

\* blackPawnNearby without the test of the pawn's rank.
blackPawnNearby_AnyRank(m, rank, file) ==
    \/ (m.enPasRank = 2) /\ (m.enPasFile > 0) /\ (file = m.enPasFile - 1)
    \/ (m.enPasRank = 2) /\ (m.enPasFile < 7) /\ (file = m.enPasFile + 1)

\* The two tests after the XOR of case "p".
blackPawnNearby(m, rank, file) ==
    \/ (m.enPasRank = 2) /\ (rank = 3) /\ (m.enPasFile > 0) /\ (file = m.enPasFile - 1)
    \/ (m.enPasRank = 2) /\ (rank = 3) /\ (m.enPasFile < 7) /\ (file = m.enPasFile + 1)

\* whitePawnNearby without the test of the pawn's rank.
whitePawnNearby_AnyRank(m, rank, file) ==
    \/ (m.enPasRank = 5) /\ (m.enPasFile > 0) /\ (file = m.enPasFile - 1)
    \/ (m.enPasRank = 5) /\ (m.enPasFile < 7) /\ (file = m.enPasFile + 1)

\* The two tests after the XOR of case "P".
whitePawnNearby(m, rank, file) ==
    \/ (m.enPasRank = 5) /\ (rank = 4) /\ (m.enPasFile > 0) /\ (file = m.enPasFile - 1)
    \/ (m.enPasRank = 5) /\ (rank = 4) /\ (m.enPasFile < 7) /\ (file = m.enPasFile + 1)

\* The inner loop of hashPieces over the characters of one rank group.
\* ret is TRUE when the default case returned from hashPieces.
RECURSIVE hashPiecesChars(_, _, _, _, _)
hashPiecesChars(m, group, rank, j, file) ==
    IF m.thrown \/ j > Len(group) THEN [m |-> m, file |-> file, ret |-> FALSE]
    ELSE LET c == group[j] IN
         IF c \in DOMAIN pieceCase
         THEN LET m1 == xorHash(m, 64 * pieceCase[c] + 8 * rank + file, "hashPieces")
                  m2 == IF m1.thrown THEN m1
                        ELSE IF c = "p" /\ blackPawnNearby(m1, rank, file)
                             THEN [m1 EXCEPT !.pawnNearby = TRUE]
                        ELSE IF c = "P" /\ whitePawnNearby(m1, rank, file)
                             THEN [m1 EXCEPT !.pawnNearby = TRUE]
                        ELSE m1
              IN  hashPiecesChars(m2, group, rank, j + 1, file + 1)
         ELSE IF c \in digitCase
         THEN hashPiecesChars(m, group, rank, j + 1, file + (CharCode[c] - 48))
         ELSE [m |-> [m EXCEPT !.error = TRUE], file |-> file, ret |-> TRUE]

\* hashPiecesRanks with rank = i instead of rank = 7 - i.
RECURSIVE hashPiecesRanks_NoFlip(_, _, _)
hashPiecesRanks_NoFlip(m, ranks, i) ==
    IF i >= 8 \/ m.thrown THEN m
    ELSE LET r == hashPiecesChars(m, ranks[i + 1], i, 1, 0) IN
         IF r.m.thrown \/ r.ret THEN r.m
         ELSE hashPiecesRanks_NoFlip(IF r.file # 8 THEN [r.m EXCEPT !.error = TRUE] ELSE r.m,
                                     ranks, i + 1)

\* The outer loop of hashPieces over the 8 rank groups.
RECURSIVE hashPiecesRanks(_, _, _)
hashPiecesRanks(m, ranks, i) ==
    IF i >= 8 \/ m.thrown THEN m
    ELSE LET r == hashPiecesChars(m, ranks[i + 1], 7 - i, 1, 0) IN
         IF r.m.thrown \/ r.ret THEN r.m
         ELSE hashPiecesRanks(IF r.file # 8 THEN [r.m EXCEPT !.error = TRUE] ELSE r.m,
                              ranks, i + 1)

\* String.prototype.split on a one-character separator.
RECURSIVE SplitFrom(_, _, _, _)
SplitFrom(s, sep, k, cur) ==
    IF k > Len(s) THEN <<cur>>
    ELSE IF s[k] = sep THEN <<cur>> \o SplitFrom(s, sep, k + 1, <<>>)
    ELSE SplitFrom(s, sep, k + 1, Append(cur, s[k]))

split(s, sep) == SplitFrom(s, sep, 1, <<>>)

hashPieces(m, str) ==
    LET ranks == split(str, "/") IN
    IF Len(ranks) # 8 THEN [m EXCEPT !.error = TRUE]
    ELSE hashPiecesRanks(m, ranks, 0)


(***************************************************************************)
(* validFenPattern.test(fen), for the regular expression                   *)
(*   ^([rnbqkpRNBQKP1-8]+\/){7}[rnbqkpRNBQKP1-8]+ [wb] [KQkq-]{1,4}        *)
(*    [a-h1-8-]{1,2} \d+ \d+$                                              *)
(* No class contains the character that follows it in the pattern, so the  *)
(* longest run of each class is the only way to match.                     *)
(***************************************************************************)

boardClass ==
    {"r","n","b","q","k","p","R","N","B","Q","K","P","1","2","3","4","5","6","7","8"}

colorClass == {"w", "b"}

castlingClass == {"K", "Q", "k", "q", "-"}

enPassantClass ==
    {"a","b","c","d","e","f","g","h","1","2","3","4","5","6","7","8","-"}

digitClass == {"0","1","2","3","4","5","6","7","8","9"}

\* The length of the longest run of characters of class C that starts at s[i].
RECURSIVE Span(_, _, _)
Span(s, i, C) ==
    IF i >= 1 /\ i <= Len(s) /\ s[i] \in C THEN 1 + Span(s, i + 1, C) ELSE 0

At(s, i, c) == i >= 1 /\ i <= Len(s) /\ s[i] = c

\* ([rnbqkpRNBQKP1-8]+\/){k} matched from s[i]: the position after it, 0 if none.
RECURSIVE MatchRankGroups(_, _, _)
MatchRankGroups(s, i, k) ==
    IF k = 0 THEN i
    ELSE LET n == Span(s, i, boardClass) IN
         IF n >= 1 /\ At(s, i + n, "/") THEN MatchRankGroups(s, i + n + 1, k - 1) ELSE 0

validFenPattern(s) ==
    LET p1 == MatchRankGroups(s, 1, 7)
        n1 == Span(s, p1, boardClass)
        p2 == p1 + n1
        n3 == Span(s, p2 + 3, castlingClass)
        p3 == p2 + 3 + n3
        n4 == Span(s, p3 + 1, enPassantClass)
        p4 == p3 + 1 + n4
        n5 == Span(s, p4 + 1, digitClass)
        p5 == p4 + 1 + n5
        n6 == Span(s, p5 + 1, digitClass)
    IN  /\ p1 # 0
        /\ n1 >= 1 /\ At(s, p2, " ")
        /\ Span(s, p2 + 1, colorClass) >= 1 /\ At(s, p2 + 2, " ")
        /\ n3 >= 1 /\ n3 <= 4 /\ At(s, p3, " ")
        /\ n4 >= 1 /\ n4 <= 2 /\ At(s, p4, " ")
        /\ n5 >= 1 /\ At(s, p5, " ")
        /\ n6 >= 1 /\ p5 + 1 + n6 = Len(s) + 1

\* String.prototype.trim, the blank being the only white space of the inputs.
RECURSIVE trim(_)
trim(s) ==
    IF s = <<>> THEN s
    ELSE IF Head(s) = " " THEN trim(Tail(s))
    ELSE IF s[Len(s)] = " " THEN trim(SubSeq(s, 1, Len(s) - 1))
    ELSE s

\* An element of the destructured array: undefined (here <<>>, as falsy as
\* the empty string) when the array is too short.
Field(parts, k) == IF k <= Len(parts) THEN parts[k] ELSE <<>>

WrongPosition == <<"W","r","o","n","g"," ","p","o","s","i","t","i","o","n">>

\* resetState without the assignment to pawnNearby.
resetState_KeepPawnNearby(this) ==
    [error |-> FALSE, enPasRank |-> -1, enPasFile |-> -1, pawnNearby |-> this.pawnNearby,
     arr |-> <<>>, log |-> <<>>, thrown |-> FALSE]

\* The assignments hashPosition starts with.
resetState(this) ==
    [error |-> FALSE, enPasRank |-> -1, enPasFile |-> -1, pawnNearby |-> FALSE,
     arr |-> <<>>, log |-> <<>>, thrown |-> FALSE]

\* hashPosition called on an instance whose fields are this: the fields,
\* the log and the thrown flag it leaves, and the value it returns.
hashPosition(this, str) ==
    LET m0 == resetState(this) IN
    IF ~validFenPattern(str) THEN [m |-> m0, ret |-> WrongPosition]
    ELSE LET parts     == split(trim(str), " ")
             pieces    == Field(parts, 1)
             color     == Field(parts, 2)
             castling  == Field(parts, 3)
             enPassant == Field(parts, 4)
         IN  IF pieces = <<>> \/ color = <<>> \/ castling = <<>> \/ enPassant = <<>>
             THEN [m |-> [m0 EXCEPT !.error = TRUE], ret |-> WrongPosition]
             ELSE LET m1 == [m0 EXCEPT !.arr = emptyHash]
                      m2 == parseEnPassant(m1, enPassant)
                      m3 == hashPieces(m2, pieces)
                      m4 == IF ~m3.thrown /\ m3.pawnNearby
                            THEN xorHash(m3, 772 + m3.enPasFile, "hashPosition")
                            ELSE m3
                      m5 == hashSide(m4, color)
                      m6 == hashCastling(m5, castling)
                  IN  [m   |-> m6,
                       ret |-> IF m6.thrown THEN <<>>
                               ELSE IF m6.error THEN WrongPosition
                               ELSE createHexString(m6.arr)]


(***************************************************************************)
(* The instance: construction, and the one public method.                  *)
(***************************************************************************)

Fields == [error |-> error, enPasRank |-> enPasRank, enPasFile |-> enPasFile,
           pawnNearby |-> pawnNearby]

\* new ChessHasher(): the field initialisers; no call made yet.
Init ==
    /\ error = FALSE
    /\ enPasRank = -1
    /\ enPasFile = -1
    /\ pawnNearby = FALSE
    /\ fen = <<>>
    /\ outcome = "none"
    /\ result = <<>>
    /\ lookups = <<>>
    /\ pre = [error |-> FALSE, enPasRank |-> -1, enPasFile |-> -1, pawnNearby |-> FALSE]

\* The instance and its caller once the call hashPosition(str) has ended as r:
\* the fields as the call left them; fen, outcome, result record the call for
\* the caller; lookups and pre are history: the table indices the call read
\* and the fields the instance had when the call was made.
Completes(str, r) ==
    /\ error' = r.m.error
    /\ enPasRank' = r.m.enPasRank
    /\ enPasFile' = r.m.enPasFile
    /\ pawnNearby' = r.m.pawnNearby
    /\ fen' = str
    /\ outcome' = IF r.m.thrown THEN "TypeError" ELSE "returned"
    /\ result' = r.ret
    /\ lookups' = r.m.log
    /\ pre' = Fields

\* hasher.hashPosition(str).
HashPosition(str) ==
    \E r \in {hashPosition(Fields, str)} : Completes(str, r)

(***************************************************************************)
(* Inputs                                                                  *)
(***************************************************************************)

\* Array.prototype.join.
RECURSIVE Join(_, _)
Join(parts, sep) ==
    IF parts = <<>> THEN <<>>
    ELSE IF Len(parts) = 1 THEN parts[1]
    ELSE parts[1] \o <<sep>> \o Join(Tail(parts), sep)

Board(groups) == Join(groups, "/")

MakeFen(board, color, castling, enPassant, halfmove, fullmove) ==
    Join(<<board, color, castling, enPassant, halfmove, fullmove>>, " ")

\* All the strings of 1..n characters of the set A.
Strings(A, n) == UNION {[1..k -> A] : k \in 1..n}

\* A run of n copies of the character c.
Run(c, n) == [k \in 1..n |-> c]

G8 == <<"8">>

Grnbqkbnr == <<"r","n","b","q","k","b","n","r">>

Gpppppppp == <<"p","p","p","p","p","p","p","p">>

GPPPPPPPP == <<"P","P","P","P","P","P","P","P">>

GRNBQKBNR == <<"R","N","B","Q","K","B","N","R">>

G4P3 == <<"4","P","3">>

GPPPP1PPP == <<"P","P","P","P","1","P","P","P">>

Gpppp1ppp == <<"p","p","p","p","1","p","p","p">>

G4p3 == <<"4","p","3">>

Gppp1pppp == <<"p","p","p","1","p","p","p","p">>

G3p4 == <<"3","p","4">>

G4k3 == <<"4","k","3">>

G4K3 == <<"4","K","3">>

\* The board with group g written as rank group i (0 for the first) and
\* empty ranks elsewhere.
OneRank(i, g) == Board([k \in 1..8 |-> IF k = i + 1 THEN g ELSE G8])

\* The board with g written as rank group i, h as rank group j (i # j).
TwoRanks(i, g, j, h) ==
    Board([k \in 1..8 |-> IF k = i + 1 THEN g ELSE IF k = j + 1 THEN h ELSE G8])

StartBoard == Board(<<Grnbqkbnr, Gpppppppp, G8, G8, G8, G8, GPPPPPPPP, GRNBQKBNR>>)

E4Board == Board(<<Grnbqkbnr, Gpppppppp, G8, G8, G4P3, G8, GPPPP1PPP, GRNBQKBNR>>)

E4E5Board == Board(<<Grnbqkbnr, Gpppp1ppp, G8, G4p3, G4P3, G8, GPPPP1PPP, GRNBQKBNR>>)

E4D5Board == Board(<<Grnbqkbnr, Gppp1pppp, G8, G3p4, G4P3, G8, GPPPP1PPP, GRNBQKBNR>>)

EmptyBoard == Board(<<G8, G8, G8, G8, G8, G8, G8, G8>>)

KingsBoard == Board(<<G4k3, G8, G8, G8, G8, G8, G8, G4K3>>)


Digits == <<"0","1","2","3","4","5","6","7","8","9">>

\* The rank group of 8 files with the one piece c on file x.
SinglePiece(c, x) ==
    (IF x > 0 THEN <<Digits[x + 1]>> ELSE <<>>) \o <<c>> \o
    (IF x < 7 THEN <<Digits[8 - x]>> ELSE <<>>)

\* The rank group of 8 files with the piece c on files x and x + 2.
PiecePair(c, x) ==
    (IF x > 0 THEN <<Digits[x + 1]>> ELSE <<>>) \o <<c, "1", c>> \o
    (IF x < 5 THEN <<Digits[6 - x]>> ELSE <<>>)

\* Bounds of the input sets.
MaxEights == 3

MaxCastlingLen == 2

Colors == {<<"w">>, <<"b">>}

NoCastling == <<"-">>

AllCastling == <<"K","Q","k","q">>

NoEnPassant == <<"-">>

Files == {"a","b","c","d","e","f","g","h"}

Ranks == {"1","2","3","4","5","6","7","8"}

EpSquares == {<<f, r>> : f \in Files, r \in Ranks}

\* Every en-passant field the pattern lets through, and some it does not.
EpFields ==
    Strings(enPassantClass, 2) \cup
    {<<"e","9","9">>, <<"e","9">>, <<"e","0">>, <<"E","3">>, <<"i","3">>, <<"x">>}

\* Every castling field of up to MaxCastlingLen characters the pattern lets
\* through, some longer ones, and some it does not let through.
CastlingFields ==
    Strings(castlingClass, MaxCastlingLen) \cup
    {<<"K","Q","k","q">>, <<"k","q","K","Q">>, <<"Q","k","q","K">>, <<"K","Q","k">>, <<"q","k","Q">>, <<"K","k","q">>, <<"K","K","K","K">>, <<"K","-","K","q">>, <<"K","Q","-">>, <<"K","Q","k","q","K">>, <<"K","Q","k","q","-">>, <<"A">>, <<"K","A">>}

PawnGroups(c) ==
    {SinglePiece(c, x) : x \in 0..7} \cup {PiecePair(c, x) : x \in 0..5} \cup {Run(c, 8)}

\* Boards with pawns on the two rows next to an en-passant target, on the
\* rows one further, and the opening positions.
EpBoards ==
    {OneRank(i, g) : i \in {3, 4}, g \in PawnGroups("p") \cup PawnGroups("P")} \cup
    {OneRank(i, SinglePiece(c, x)) : i \in {2, 5}, c \in {"p", "P"}, x \in {0, 3, 5}} \cup
    {TwoRanks(3, SinglePiece("P", x), 4, SinglePiece("p", x + 1)) : x \in {0, 3, 6}} \cup
    {TwoRanks(3, SinglePiece("p", x), 4, SinglePiece("P", x + 1)) : x \in {0, 3, 6}} \cup
    {StartBoard, E4Board, E4E5Board, E4D5Board}

PieceGroups ==
    {SinglePiece(c, x) : c \in DOMAIN pieceCase, x \in {0, 3, 7}} \cup
    {Grnbqkbnr, GRNBQKBNR, <<"1","n","2","B","1","q","1">>, <<"p","P","1","k","K","1","r","R">>, <<"2","Q","2","r","2">>}

PieceBoards ==
    {OneRank(i, g) : i \in 0..7, g \in PieceGroups} \cup
    {StartBoard, E4Board, E4E5Board, E4D5Board, EmptyBoard, KingsBoard}

\* Rank groups that do not describe 8 files, or that the pattern refuses.
BadGroups ==
    {Run("8", n) \o <<c>> : n \in 0..MaxEights, c \in {"K", "q", "p", "P"}} \cup
    {<<"7">>, <<"4","4","p">>, <<"p","p","p","p","p","p","p","p","p">>, <<"p","p","p","p","p","p","p","p","1">>, <<"8","8">>, <<"9">>, <<"x","7">>, <<"0","8">>, <<"p","6">>, <<"3","p","5">>, <<"1">>, Run("K", 22)}

BadBoards ==
    {OneRank(i, g) : i \in {0, 1, 4, 7}, g \in BadGroups} \cup
    {Board(<<Grnbqkbnr, Gpppppppp, G8, G8, G8, G8, GPPPPPPPP>>),
     Board(<<Grnbqkbnr, <<"p","p","p","p","p","p","p","p","p">>, G8, G8, G8, G8, GPPPPPPPP, GRNBQKBNR>>),
     Board(<<Grnbqkbnr, Gpppppppp, G8, G8, G8, G8, G8, GPPPPPPPP, GRNBQKBNR>>),
     Board(<<G8, G8, G8, <<>>, G8, G8, G8, G8>>),
     Board(<<G8, G8, G8, G8, G8, G8, G8, G8, <<>> >>),
     Board(<<G8>>)}

Zero == <<"0">>

One == <<"1">>

\* Strings that are not six fields separated by single blanks.
MalformedFens ==
    {StartBoard,
     <<>>,
     Join(<<StartBoard, <<"w">> >>, " "),
     Join(<<StartBoard, <<"w">>, AllCastling, NoEnPassant>>, " "),
     Join(<<StartBoard, <<"w">>, AllCastling, NoEnPassant, Zero>>, " "),
     Join(<<StartBoard, <<"w">>, AllCastling, NoEnPassant, Zero, One, One>>, " "),
     Join(<<StartBoard, <<"w">>, <<>>, NoEnPassant, Zero, One>>, " "),
     Join(<<StartBoard, <<>>, AllCastling, NoEnPassant, Zero, One>>, " "),
     <<" ">> \o MakeFen(StartBoard, <<"w">>, AllCastling, NoEnPassant, Zero, One),
     MakeFen(StartBoard, <<"w">>, AllCastling, NoEnPassant, Zero, One) \o <<" ">>,
     MakeFen(StartBoard, <<"W">>, AllCastling, NoEnPassant, Zero, One),
     MakeFen(StartBoard, <<"w", "b">>, AllCastling, NoEnPassant, Zero, One),
     MakeFen(StartBoard, <<"w">>, AllCastling, NoEnPassant, <<"-", "1">>, One),
     MakeFen(StartBoard, <<"w">>, AllCastling, NoEnPassant, Zero, <<"x">>)}

\* The arguments of hashPosition.
Inputs ==
    {MakeFen(b, c, NoCastling, e, Zero, One) :
        b \in EpBoards, c \in Colors, e \in EpSquares \cup {NoEnPassant}} \cup
    {MakeFen(b, c, k, NoEnPassant, Zero, <<"1", "2">>) :
        b \in PieceBoards, c \in {<<"w">>}, k \in {NoCastling, AllCastling}} \cup
    {MakeFen(b, c, AllCastling, e, Zero, One) :
        b \in BadBoards, c \in Colors,
        e \in {NoEnPassant, <<"e", "3">>, <<"e">>, <<"-", "-">>}} \cup
    {MakeFen(b, <<"w">>, NoCastling, e, <<"1", "0">>, <<"2">>) :
        b \in {StartBoard, EmptyBoard, OneRank(4, SinglePiece("p", 3)),
               OneRank(0, Run("8", MaxEights) \o <<"K">>)},
        e \in EpFields} \cup
    {MakeFen(b, c, k, e, Zero, <<"2">>) :
        b \in {StartBoard, EmptyBoard, E4E5Board}, c \in Colors,
        k \in CastlingFields, e \in {NoEnPassant, <<"e", "6">>}} \cup
    {MakeFen(EmptyBoard, c, k, <<"e", "4">>, <<"1", "0">>, <<"2">>) :
        c \in Colors, k \in {<<"-", "-">>, <<"K", "K">>, AllCastling}} \cup
    MalformedFens

\* The first call on a new instance.
FirstCall ==
    \E str \in Inputs : \E r \in {hashPosition(Fields, str)} :
        outcome = "none" /\ Completes(str, r)

Next == FirstCall

Spec == Init /\ [][Next]_vars


\* Inputs of a session of several calls on one instance: inputs that set
\* each of the fields, that leave them unset, and that stop at each exit.
SessionInputs ==
    {MakeFen(b, <<"w">>, NoCastling, e, Zero, One) :
        b \in {EmptyBoard, OneRank(4, PiecePair("p", 3)), OneRank(3, PiecePair("P", 3)),
               OneRank(4, SinglePiece("p", 0))},
        e \in {NoEnPassant, <<"e", "3">>, <<"e", "6">>, <<"e">>}} \cup
    {MakeFen(b, <<"b">>, AllCastling, e, Zero, One) :
        b \in {StartBoard, OneRank(0, <<"7">>), OneRank(0, Run("8", MaxEights) \o <<"K">>)},
        e \in {NoEnPassant, <<"a", "3">>}} \cup
    {StartBoard, MakeFen(E4E5Board, <<"w">>, AllCastling, <<"e", "6">>, Zero, <<"2">>)}

\* Any call on an instance, new or used.
AnyCall == \E str \in SessionInputs : HashPosition(str)

NextSession == AnyCall

SpecSession == Init /\ [][NextSession]_vars

(***************************************************************************)
(* Vocabulary of the properties: the input read as a FEN, independently of *)
(* the way hashPieces scans it.                                            *)
(***************************************************************************)

NewFields == [error |-> FALSE, enPasRank |-> -1, enPasFile |-> -1, pawnNearby |-> FALSE]

\* The k-th blank-separated field of the string, <<>> if there is none.
FenField(str, k) == Field(split(str, " "), k)

\* The string with its k-th field replaced.
WithField(str, k, v) == Join([split(str, " ") EXCEPT ![k] = v], " ")

Called == outcome # "none"

Returned == outcome = "returned"

Rejected == Returned /\ result = WrongPosition

Accepted == Returned /\ result # WrongPosition

IsHash(s) == Len(s) = 16 /\ \A k \in 1..16 : \E d \in 1..16 : s[k] = LowerHexDigits[d]

\* What a call on a new instance returns, <<>> if it throws.
FreshResult(str) == hashPosition(NewFields, str).ret

\* The hexadecimal string of the XOR of two hexadecimal strings.
HexXor(h, c) == createHexString(xorArrays(parseHexString(h), parseHexString(c)))

\* The table indices the call read in the method who, in order.
RECURSIVE IndicesBy(_, _)
IndicesBy(log, who) ==
    IF log = <<>> THEN <<>>
    ELSE IF Head(log).by = who THEN <<Head(log).idx>> \o IndicesBy(Tail(log), who)
    ELSE IndicesBy(Tail(log), who)

PieceLetters == <<"p","P","n","N","b","B","r","R","q","Q","k","K">>

IsPieceLetter(c) == \E k \in 1..12 : PieceLetters[k] = c

KindOf(c) == (CHOOSE k \in 1..12 : PieceLetters[k] = c) - 1

EmptyDigits == {"1","2","3","4","5","6","7","8"}

\* The squares a rank group describes, "." for an empty one.
RECURSIVE Squares(_)
Squares(g) ==
    IF g = <<>> THEN <<>>
    ELSE IF Head(g) \in EmptyDigits THEN Run(".", CharCode[Head(g)] - 48) \o Squares(Tail(g))
    ELSE <<Head(g)>> \o Squares(Tail(g))

RankGroups(str) == split(FenField(str, 1), "/")

\* What stands on the square of board rank r (0..7) and file f of an
\* accepted FEN, "." outside the board.
SquareOn(str, r, f) ==
    IF r \in 0..7 /\ f \in 0..7 THEN Squares(RankGroups(str)[8 - r])[f + 1] ELSE "."


(***************************************************************************)
(* Properties                                                              *)
(***************************************************************************)

\* C1: every call returns, and returns a 16-digit lowercase hexadecimal
\* string or "Wrong position"; every table index it reads is in 0..780.
C1_AlwaysReturns ==
    Called =>
        /\ Returned
        /\ IsHash(result) \/ result = WrongPosition
        /\ \A k \in 1..Len(lookups) : lookups[k].idx \in 0..780

\* The number of files a rank group describes: one per piece letter, n per
\* digit n.
RECURSIVE FileCount(_)
FileCount(g) ==
    IF g = <<>> THEN 0
    ELSE (IF IsPieceLetter(Head(g)) THEN 1
          ELSE IF Head(g) \in EmptyDigits THEN CharCode[Head(g)] - 48
          ELSE 0) + FileCount(Tail(g))

BadPlacement(str) ==
    LET groups == RankGroups(str) IN
    \/ Len(groups) # 8
    \/ \E i \in 1..Len(groups) : FileCount(groups[i]) # 8
    \/ \E i \in 1..Len(groups) : \E j \in 1..Len(groups[i]) :
          ~IsPieceLetter(groups[i][j]) /\ groups[i][j] \notin EmptyDigits

\* C2: a FEN whose placement has not 8 ranks, or a rank not of 8 files, or
\* a character that is neither a piece letter nor a digit 1-8, is answered
\* with "Wrong position", whatever its other fields.
C2_StructuralRejection == (Called /\ BadPlacement(fen)) => Rejected


\* ConstantTable[i], for i in 0..780.
TableAt(i) == hashes[i + 1]

\* The files of the pawns that could capture on the en-passant square of
\* the FEN: black pawns on board rank 3 beside a target on rank 2, white
\* pawns on board rank 4 beside a target on rank 5.
CapturingPawns(str) ==
    LET ep == FenField(str, 4)
        f  == CharCode[ep[1]] - 97
        r  == CharCode[ep[2]] - 49
    IN  IF r = 2 THEN {x \in {f - 1, f + 1} : SquareOn(str, 3, x) = "p"}
        ELSE IF r = 5 THEN {x \in {f - 1, f + 1} : SquareOn(str, 4, x) = "P"}
        ELSE {}

\* C3: an accepted FEN with an en-passant square on file f hashes as the
\* same FEN with en-passant field "-" when no capturing pawn stands beside
\* the square, and as that hash XOR ConstantTable[772 + f], read once, when
\* one or two do.
C3_EnPassantGating ==
    (Accepted /\ FenField(fen, 4) \in EpSquares) =>
        LET f     == CharCode[FenField(fen, 4)[1]] - 97
            twin  == FreshResult(WithField(fen, 4, NoEnPassant))
            reads == IndicesBy(lookups, "hashPosition")
        IN  /\ IsHash(twin)
            /\ IF CapturingPawns(fen) = {}
               THEN result = twin /\ reads = <<>>
               ELSE result = HexXor(twin, TableAt(772 + f)) /\ reads = <<772 + f>>

\* An accepted FEN with two pawns beside its en-passant square.
C3_Witness ==
    /\ Accepted
    /\ FenField(fen, 4) \in EpSquares
    /\ Cardinality(CapturingPawns(fen)) = 2


\* C4: whatever calls were made on the instance before, a call returns (or
\* throws) what the same call on a new instance does.
C4_NoLeak ==
    Called =>
        LET fresh == hashPosition(NewFields, fen) IN
        /\ result = fresh.ret
        /\ (outcome = "TypeError") = fresh.m.thrown

\* A call accepted with en-passant field "-" on an instance that the call
\* before left with the pawn flag and the en-passant square set.
C4_Witness ==
    /\ Accepted
    /\ FenField(fen, 4) = NoEnPassant
    /\ pre.pawnNearby /\ pre.enPasFile # -1 /\ pre.enPasRank # -1


OtherColor(c) == IF c = <<"w">> THEN <<"b">> ELSE <<"w">>

\* C5: an accepted FEN and the same FEN with the other side to move hash
\* differently, the hash for "w" being the hash for "b" XOR
\* ConstantTable[780]: the constant is read once for "w", never for "b".
C5_SideConstant ==
    Accepted =>
        LET side  == FenField(fen, 2)
            twin  == FreshResult(WithField(fen, 2, OtherColor(side)))
            reads == IndicesBy(lookups, "hashSide")
        IN  /\ IsHash(twin)
            /\ result # twin
            /\ IF side = <<"w">>
               THEN reads = <<780>> /\ result = HexXor(twin, TableAt(780))
               ELSE reads = <<>> /\ twin = HexXor(result, TableAt(780))

\* An accepted FEN with black to move whose en-passant constant applies.
C5_Witness ==
    /\ Accepted
    /\ FenField(fen, 2) = <<"b">>
    /\ pawnNearby

CastlingLetters == <<"K", "Q", "k", "q">>

\* The indices 768..771 of the letters K, Q, k, q the field contains, in
\* ascending order.
CastlingIndices(castling) ==
    SelectSeq(<<768, 769, 770, 771>>, LAMBDA x : includes(castling, CastlingLetters[x - 767]))

\* The hexadecimal string h XOR the table entries of the indices.
RECURSIVE XorAll(_, _)
XorAll(h, indices) ==
    IF indices = <<>> THEN h
    ELSE XorAll(HexXor(h, TableAt(Head(indices))), Tail(indices))

\* C6: an accepted FEN hashes as the same FEN with castling field "-" XOR
\* the constants 768..771 of the letters K, Q, k, q its castling field
\* contains, each read once, whatever their order; if it contains one,
\* the two hashes differ.
C6_CastlingConstants ==
    Accepted =>
        LET castling == FenField(fen, 3)
            twin     == FreshResult(WithField(fen, 3, NoCastling))
            reads    == IndicesBy(lookups, "hashCastling")
            expected == IF castling = NoCastling THEN <<>> ELSE CastlingIndices(castling)
        IN  /\ IsHash(twin)
            /\ reads = expected
            /\ result = XorAll(twin, expected)
            /\ (expected # <<>>) => (result # twin)

\* An accepted FEN whose castling field lists the four letters out of order.
C6_Witness ==
    /\ Accepted
    /\ FenField(fen, 3) = <<"k","q","K","Q">>
    /\ IndicesBy(lookups, "hashCastling") = <<768, 769, 770, 771>>

\* "-", or one to four of the letters K, Q, k, q without repetition.
ValidCastling(castling) ==
    \/ castling = NoCastling
    \/ /\ Len(castling) \in 1..4
       /\ \A k \in 1..Len(castling) : \E l \in 1..4 : castling[k] = CastlingLetters[l]
       /\ \A j, k \in 1..Len(castling) : (j # k) => (castling[j] # castling[k])

\* C7: a FEN whose castling field repeats a letter, or mixes or repeats
\* "-", is answered with "Wrong position".
C7_CastlingGate == (Called /\ ~ValidCastling(FenField(fen, 3))) => Rejected

\* An en-passant field that is present, and neither "-" nor a square.
BadEnPassant(ep) ==
    /\ ep # <<>>
    /\ ep # NoEnPassant
    /\ ~(Len(ep) = 2 /\ ep[1] \in Files /\ ep[2] \in Ranks)

\* C8: a FEN whose en-passant field is neither "-" nor a letter a..h
\* followed by a digit 1..8 is answered with "Wrong position";
\* parseEnPassant sets the error flag for such a field and leaves
\* enPasRank and enPasFile at -1, and no en-passant constant is applied.
C8_BadEnPassantRejected ==
    (Called /\ BadEnPassant(FenField(fen, 4))) =>
        LET parsed == parseEnPassant(resetState(NewFields), FenField(fen, 4)) IN
        /\ Rejected
        /\ parsed.error /\ parsed.enPasRank = -1 /\ parsed.enPasFile = -1
        /\ enPasRank = -1 /\ enPasFile = -1
        /\ IndicesBy(lookups, "hashPosition") = <<>>

\* The indices of the pieces of one rank group, written as group i, from
\* the squares it describes.
PieceIndicesOfGroup(g, i) ==
    LET sq == Squares(g)
        at == SelectSeq([f \in 1..Len(sq) |-> f - 1], LAMBDA f : IsPieceLetter(sq[f + 1]))
    IN  [k \in 1..Len(at) |-> KindOf(sq[at[k] + 1]) * 64 + (7 - i) * 8 + at[k]]

RECURSIVE PieceIndicesFrom(_, _)
PieceIndicesFrom(groups, i) ==
    IF i >= Len(groups) THEN <<>>
    ELSE PieceIndicesOfGroup(groups[i + 1], i) \o PieceIndicesFrom(groups, i + 1)

\* The piece letters of the placement, in the order written.
PiecesWritten(str) == SelectSeq(FenField(str, 1), IsPieceLetter)

\* C10: for an accepted FEN hashPieces reads one constant per piece and
\* none for the empty squares: index k*64 + (7-i)*8 + f for a piece of
\* kind k in rank group i on file f, inside 0..767 and the band of its
\* kind, no index twice; the hash is the XOR of the constants read.
C10_PieceIndices ==
    Accepted =>
        LET reads  == IndicesBy(lookups, "hashPieces")
            pieces == PiecesWritten(fen)
        IN  /\ reads = PieceIndicesFrom(RankGroups(fen), 0)
            /\ Len(reads) = Len(pieces)
            /\ \A k \in 1..Len(reads) :
                  /\ reads[k] \in 0..767
                  /\ reads[k] \div 64 = KindOf(pieces[k])
            /\ \A j, k \in 1..Len(reads) : (j # k) => (reads[j] # reads[k])
            /\ result = XorAll(createHexString(emptyHash),
                               [k \in 1..Len(lookups) |-> lookups[k].idx])

\* An accepted FEN with pieces of three kinds between empty squares on
\* one rank.
C10_Witness ==
    /\ Accepted
    /\ \E i \in 1..8 : RankGroups(fen)[i] = <<"1","n","2","B","1","q","1">>
    /\ Len(IndicesBy(lookups, "hashPieces")) = 3


\* What the placement field writes on board rank r, file f, "." when it
\* writes nothing there (also for a group that is too short).
PieceAt(str, r, f) ==
    LET groups == RankGroups(str) IN
    IF r \in 0..7 /\ f \in 0..7 /\ 8 - r <= Len(groups)
    THEN LET row == Squares(groups[8 - r]) IN
         IF f + 1 <= Len(row) THEN row[f + 1] ELSE "."
    ELSE "."

\* The side a pawn letter belongs to.
PawnSide(c) == IF c = "p" THEN <<"b">> ELSE <<"w">>

\* The pawns of the combination that matches the en-passant field of the
\* string, as squares <<rank, file>>: black pawns on board rank 3 beside a
\* target on rank 2, white pawns on board rank 4 beside a target on rank 5;
\* none when the field is not a square.
MatchingPawns(str) ==
    LET ep == FenField(str, 4) IN
    IF ep \notin EpSquares THEN {}
    ELSE LET f == CharCode[ep[1]] - 97
             r == CharCode[ep[2]] - 49
         IN  IF r = 2 THEN {<<3, x>> : x \in {y \in {f - 1, f + 1} : PieceAt(str, 3, y) = "p"}}
             ELSE IF r = 5 THEN {<<4, x>> : x \in {y \in {f - 1, f + 1} : PieceAt(str, 4, y) = "P"}}
             ELSE {}

\* C11 as stated: when an accepted call reads ConstantTable[772 + file], a
\* pawn of the matching combination stands beside the target and belongs to
\* the side that the side field says is not to move.
C11_SideNotToMove ==
    (Accepted /\ IndicesBy(lookups, "hashPosition") # <<>>) =>
        \E sq \in MatchingPawns(fen) :
            PawnSide(PieceAt(fen, sq[1], sq[2])) = OtherColor(FenField(fen, 2))

\* C11 amended: the side field has no part in en-passant hashing.  After
\* any call, the pawn flag is set only if a pawn of the combination matching
\* the en-passant rank stands beside the target, and hashPosition reads
\* ConstantTable[772 + file], once, only if the flag is set; a call that
\* returns after the pattern matched has set the flag and read the constant
\* whenever such a pawn stands there, whichever side the side field names.
C11_RankDecidesPawn ==
    Called =>
        LET reads == IndicesBy(lookups, "hashPosition") IN
        /\ pawnNearby => MatchingPawns(fen) # {}
        /\ reads # <<>> => pawnNearby /\ reads = <<772 + enPasFile>>
        /\ (Returned /\ validFenPattern(fen) /\ MatchingPawns(fen) # {}) =>
               pawnNearby /\ reads = <<772 + enPasFile>>

\* An accepted call that read the en-passant constant for a pawn of the
\* side that the side field says is to move.
C11_Witness ==
    /\ Accepted
    /\ IndicesBy(lookups, "hashPosition") = <<772 + enPasFile>>
    /\ \E sq \in MatchingPawns(fen) :
           PawnSide(PieceAt(fen, sq[1], sq[2])) = FenField(fen, 2)


\* Every one of the 8 rank groups of the placement field describes 8 files.
EightFiles(str) ==
    LET groups == RankGroups(str) IN
    Len(groups) = 8 /\ \A i \in 1..8 : FileCount(groups[i]) = 8

\* "-" or a letter a..h followed by a digit 1..8.
GoodEnPassant(ep) == ep = NoEnPassant \/ ep \in EpSquares

\* C12: a call with a string that matches the syntax pattern returns a hash
\* exactly when each of the 8 rank groups has 8 files and the en-passant
\* field is "-" or a square a1..h8; the error flag is set only when one of
\* the two fails, and the call that returns answers "Wrong position"
\* exactly when the flag is set: the castling field, the rank of the
\* en-passant square, the side and the counters reject nothing.
C12_ExactAcceptance ==
    (Called /\ validFenPattern(fen)) =>
        LET ok == EightFiles(fen) /\ GoodEnPassant(FenField(fen, 4)) IN
        /\ Accepted <=> ok
        /\ error => ~ok
        /\ Returned => (Rejected <=> error)

\* An accepted call with black to move, a castling field that repeats a
\* character and an en-passant square that is on neither rank 3 nor rank 6.
C12_Witness ==
    /\ Accepted
    /\ FenField(fen, 2) = <<"b">>
    /\ FenField(fen, 3) \in {<<"-", "-">>, <<"K", "K">>}
    /\ FenField(fen, 4) \in EpSquares
    /\ FenField(fen, 4)[2] \notin {"3", "6"}

====
